---- MODULE Spec2Model ----
(***************************************************************************)
(* The HTTP auth hook of mochi-mqtt/hooks (package auth, type Hook).       *)
(*                                                                         *)
(* State: the fields of one Hook value, the result of the latest Init, and *)
(* one record per check call in flight (OnConnectAuthenticate, OnACLCheck).*)
(* A check call is split at its only blocking point, the round trip of the *)
(* transport: Call hands the first request to the transport, RoundTrip     *)
(* takes one transport outcome and either follows a redirect (the          *)
(* http.Client installed by NewTransport has no CheckRedirect, so          *)
(* Client.Do applies net/http's default redirect policy) or concludes the  *)
(* call.  h.Log is set by the broker before Init (HookBase.SetOpts) and by *)
(* every test; it is taken as set throughout.                              *)
(***************************************************************************)
EXTENDS Integers, Sequences, FiniteSets, TLC

VARIABLES
    hook,       \* the Hook's fields
    initErr,    \* what the latest Init returned
    lastCfg,    \* the config the latest Init was called with (history)
    good,       \* the Options of the latest Init that returned nil (history)
    calls,      \* calls[p]: the check call of goroutine p
    legacy      \* the legacy HTTPAuthHook run beside the Hook (SpecEquiv)

vars == <<hook, initErr, lastCfg, good, calls, legacy>>

(***************************************************************************)
(* Bounds.                                                                 *)
(***************************************************************************)
\* redirects a transport answers one check call with
MaxHops == 1
\* goroutines calling the hook at once (specification SpecConc)
MaxCalls == 2

(***************************************************************************)
(* Values.                                                                 *)
(***************************************************************************)
\* a nil pointer, interface or func value
Nil == "nil"

\* Go strings are byte strings.  A string is a sequence over Chars: "a" and
\* " " are ASCII, "xFF" is a byte that is not valid UTF-8, "uFFFD" is the
\* (valid) encoding of the Unicode replacement rune.
Chars == {"a", " ", "xFF", "uFFFD"}

Empty == << >>
Plain == <<"a">>
Padded == <<" ", "a", " ">>
NotUTF8 == <<"a", "xFF">>

\* *url.URL values handed to Init.  BadHostURL is a URL whose String() does
\* not parse back (such as &url.URL{Scheme: "http", Host: "bad host"}).
ACLURL == "http://aclhost.com"
AuthURL == "http://clientauthenticationhost.com"
SuperURL == "http://superuserhost.com"
BadHostURL == "http://bad host"

\* the Callback values of Options: nil, or a function of the response
cbAllow == "func(resp) bool { return true }"
cbInvert == "func(resp) bool { return resp.StatusCode >= 300 }"
Callbacks == {cbAllow, cbInvert}

MockRT == "mockRT"
DefaultRT == "&Transport{OriginalTransport: http.DefaultTransport}"

\* the zero value of type Options
ZeroOptions ==
    [ACLHost |-> Nil, SuperUserHost |-> Nil, ClientAuthenticationHost |-> Nil,
     RoundTripper |-> Nil, Callback |-> Nil]

\* the `config any` argument of Init: nil, a value of another type ("" in the
\* tests, or a *Options), or an Options value
Config(shape, opts) == [shape |-> shape, opts |-> opts]

Opts(acl, auth, su, rt, cb) ==
    [ACLHost |-> acl, SuperUserHost |-> su, ClientAuthenticationHost |-> auth,
     RoundTripper |-> rt, Callback |-> cb]

BadConfigs ==
    {Config("nil", ZeroOptions), Config("string", ZeroOptions),
     Config("*Options", ZeroOptions),
     Config("Options", ZeroOptions),
     Config("Options", Opts(ACLURL, Nil, SuperURL, MockRT, cbAllow)),
     Config("Options", Opts(Nil, AuthURL, Nil, Nil, Nil))}

GoodConfigs ==
    {Config("Options", Opts(ACLURL, AuthURL, Nil, Nil, Nil)),
     Config("Options", Opts(ACLURL, AuthURL, Nil, MockRT, Nil)),
     Config("Options", Opts(ACLURL, AuthURL, Nil, Nil, cbAllow)),
     Config("Options", Opts(ACLURL, AuthURL, SuperURL, MockRT, cbInvert)),
     Config("Options", Opts(BadHostURL, AuthURL, Nil, MockRT, Nil))}

Configs == BadConfigs \cup GoodConfigs

\* type Hook, and new(Hook)
NilClient == [nil |-> TRUE, Transport |-> Nil]

ZeroHook ==
    [httpClient |-> NilClient, aclhost |-> Nil, clientauthhost |-> Nil,
     superuserhost |-> Nil, callback |-> Nil]

\* the error values Init returns
NoErr == "<nil>"
ErrNilConfig == "nil config"
ErrBadConfigShape == "improper config"
ErrInvalidHosts == "hostname configs failed validation"

\* no Init call has returned yet
NotCalled == "not called"

(***************************************************************************)
(* Init and its helpers.                                                   *)
(***************************************************************************)
\* mutant: both hosts must be missing for the validation to fail
validateConfig_and(config) ==
    IF (config.ACLHost = Nil) /\ (config.ClientAuthenticationHost = Nil)
    THEN FALSE
    ELSE TRUE

validateConfig(config) ==
    IF (config.ACLHost = Nil) \/ (config.ClientAuthenticationHost = Nil)
    THEN FALSE
    ELSE TRUE

\* the *http.Client NewTransport returns
NewTransport(rt) ==
    [nil |-> FALSE, Transport |-> IF rt = Nil THEN DefaultRT ELSE rt]

\* the func value defaultCallback, as stored in h.callback
DefaultFn == "defaultCallback"

\* mutant: the Callback of the Options is never installed
InstallCallback_ignored(old, authHookConfig) ==
    DefaultFn

\* mutant: the default is installed only into an empty field, so an override
\* of an earlier Init survives an Init without Callback
InstallCallback_sticky(old, authHookConfig) ==
    IF authHookConfig.Callback # Nil
    THEN authHookConfig.Callback
    ELSE IF old # Nil THEN old ELSE DefaultFn

\* h.callback after lines 80-84 of Init, from the field before and the Options
InstallCallback(old, authHookConfig) ==
    IF authHookConfig.Callback # Nil
    THEN authHookConfig.Callback
    ELSE DefaultFn

\* mutant: the callback is stored before the hosts are validated
HookInit_early(h, config) ==
    IF config.shape = "nil"
    THEN [hook |-> h, err |-> ErrNilConfig]
    ELSE IF config.shape # "Options"
    THEN [hook |-> h, err |-> ErrBadConfigShape]
    ELSE IF ~validateConfig(config.opts)
    THEN [hook |-> [h EXCEPT !.callback = InstallCallback(@, config.opts)],
          err |-> ErrInvalidHosts]
    ELSE [hook |->
            [callback |-> InstallCallback(h.callback, config.opts),
             httpClient |-> NewTransport(config.opts.RoundTripper),
             aclhost |-> config.opts.ACLHost,
             clientauthhost |-> config.opts.ClientAuthenticationHost,
             superuserhost |-> config.opts.SuperUserHost],
          err |-> NoErr]

\* Hook.Init: the fields after the call and the error returned
HookInit(h, config) ==
    IF config.shape = "nil"
    THEN [hook |-> h, err |-> ErrNilConfig]
    ELSE IF config.shape # "Options"
    THEN [hook |-> h, err |-> ErrBadConfigShape]
    ELSE IF ~validateConfig(config.opts)
    THEN [hook |-> h, err |-> ErrInvalidHosts]
    ELSE [hook |->
            [callback |-> InstallCallback(h.callback, config.opts),
             httpClient |-> NewTransport(config.opts.RoundTripper),
             aclhost |-> config.opts.ACLHost,
             clientauthhost |-> config.opts.ClientAuthenticationHost,
             superuserhost |-> config.opts.SuperUserHost],
          err |-> NoErr]

(***************************************************************************)
(* Requests, responses and the decision functions.                         *)
(***************************************************************************)
MethodPost == "POST"
MethodGet == "GET"

\* a response's Location header: absent, a URL, or a value that does not parse
NoLocation == ""
BadLocation == "http://[bad"
Locations == {NoLocation, ACLURL, AuthURL, SuperURL, BadLocation}

RedirectStatuses == {301, 302, 303, 307, 308}
Statuses == {199, 200, 299, 300, 302, 307, 401, 403, 418, 500}

NoResp == [StatusCode |-> 0, Location |-> NoLocation]

\* the errors of makeRequest
ErrNewRequest == "parse: invalid character in host name"
ErrTransport == "Oh Crap"
ErrLocation == "failed to parse Location header"
ErrTooManyRedirects == "stopped after 10 redirects"

\* what one RoundTrip of the transport returns: (response, nil) or (nil, error)
Outcomes ==
    {[resp |-> NoResp, err |-> ErrTransport]}
    \cup {[resp |-> [StatusCode |-> s, Location |-> l], err |-> NoErr] :
            s \in Statuses \ RedirectStatuses, l \in {NoLocation}}
    \cup {[resp |-> [StatusCode |-> s, Location |-> l], err |-> NoErr] :
            s \in Statuses \cap RedirectStatuses, l \in Locations}

\* mutant: the upper end of the range is included
defaultCallback_le(resp) ==
    resp.StatusCode >= 200 /\ resp.StatusCode <= 300

defaultCallback(resp) ==
    resp.StatusCode >= 200 /\ resp.StatusCode < 300

\* calling the func value cb on a response
Apply(cb, resp) ==
    CASE cb = DefaultFn -> defaultCallback(resp)
      [] cb = cbAllow -> TRUE
      [] cb = cbInvert -> resp.StatusCode >= 300

\* strconv.FormatBool
FormatBool(b) ==
    IF b THEN <<"t", "r", "u", "e">> ELSE <<"f", "a", "l", "s", "e">>

\* encoding/json writes a string coerced to valid UTF-8: each invalid byte
\* becomes the replacement rune
ToValidUTF8(s) ==
    [i \in DOMAIN s |-> IF s[i] = "xFF" THEN "uFFFD" ELSE s[i]]

\* type ClientCheckPOST as built by OnConnectAuthenticate
ClientCheckPOST(cl, pk) ==
    [ClientID |-> cl.ID, Password |-> pk.Password, Username |-> pk.Username]

\* mutant: the client's ID and username change places
ACLCheckPOST_swapped(cl, topic, write) ==
    [ClientID |-> cl.Username, Username |-> cl.ID, Topic |-> topic,
     ACC |-> FormatBool(write)]

\* type ACLCheckPOST as built by OnACLCheck
ACLCheckPOST(cl, topic, write) ==
    [ClientID |-> cl.ID, Username |-> cl.Username, Topic |-> topic,
     ACC |-> FormatBool(write)]

\* json.Marshal of the two payload structs: the JSON object, by field tag
Marshal(payload) ==
    IF "Topic" \in DOMAIN payload
    THEN [username |-> ToValidUTF8(payload.Username),
          clientid |-> ToValidUTF8(payload.ClientID),
          topic |-> ToValidUTF8(payload.Topic),
          acc |-> ToValidUTF8(payload.ACC)]
    ELSE [clientid |-> ToValidUTF8(payload.ClientID),
          password |-> ToValidUTF8(payload.Password),
          username |-> ToValidUTF8(payload.Username)]

NoBody == [nobody |-> TRUE]

\* url.Parse(url.String()) inside http.NewRequest
Parses(url) == url # BadHostURL

(***************************************************************************)
(* Check calls.                                                            *)
(***************************************************************************)
\* *mqtt.Client: ID and Properties.Username
Clients ==
    {[ID |-> Plain, Username |-> NotUTF8], [ID |-> Padded, Username |-> Empty]}

\* packets.Packet: Connect.Username and Connect.Password
Packets ==
    {[Username |-> Plain, Password |-> NotUTF8],
     [Username |-> Padded, Password |-> Empty]}

Topics == {Plain, Padded}

\* a goroutine that is in no check call
IdleCall ==
    [pc |-> "idle", kind |-> "none",
     cl |-> [ID |-> Empty, Username |-> Empty],
     pk |-> [Username |-> Empty, Password |-> Empty],
     topic |-> Empty, write |-> FALSE,
     sent |-> << >>,     \* the requests handed to the transport, in order
     got |-> << >>,      \* what the transport returned for them, in order
     resp |-> NoResp, err |-> NoErr,   \* what makeRequest returned
     evals |-> 0,        \* invocations of h.callback
     result |-> FALSE]

\* a nil pointer dereference: the call ends in a run-time panic
Panic(c) == [c EXCEPT !.pc = "panic"]

\* mutant: the callback is asked also when makeRequest returned an error
Conclude_failOpen(h, c, resp, err) ==
    IF h.callback = Nil
    THEN Panic([c EXCEPT !.resp = resp])
    ELSE [c EXCEPT !.pc = "done", !.resp = resp, !.err = err, !.evals = @ + 1,
                   !.result = Apply(h.callback, resp)]

\* mutant: the response is kept in a place the calls share, so a call may
\* decide on the response of a call that finished before it
Conclude_shared(h, c, resp, err) ==
    LET others == {q \in DOMAIN calls :
                      /\ calls[q].pc = "done"
                      /\ calls[q].evals > 0
                      /\ calls[q].resp # resp}
        seen == IF others = {} THEN resp ELSE calls[CHOOSE q \in others : TRUE].resp
    IN
    IF err # NoErr
    THEN [c EXCEPT !.pc = "done", !.err = err, !.result = FALSE]
    ELSE IF h.callback = Nil
    THEN Panic([c EXCEPT !.resp = resp])
    ELSE [c EXCEPT !.pc = "done", !.resp = resp, !.evals = @ + 1,
                   !.result = Apply(h.callback, seen)]

\* lines 104-109 and 123-128: the error branch, or h.callback(resp)
Conclude(h, c, resp, err) ==
    IF err # NoErr
    THEN [c EXCEPT !.pc = "done", !.err = err, !.result = FALSE]
    ELSE IF h.callback = Nil
    THEN Panic([c EXCEPT !.resp = resp])
    ELSE [c EXCEPT !.pc = "done", !.resp = resp, !.evals = @ + 1,
                   !.result = Apply(h.callback, resp)]

\* makeRequest up to the point where h.httpClient.Do hands the request to the
\* transport; its callers' tail (Conclude) where it returns before that
makeRequest(h, c, requestType, url, payload) ==
    LET rb == Marshal(payload) IN
    IF url = Nil
    THEN Panic(c)
    ELSE IF ~Parses(url)
    THEN Conclude(h, c, NoResp, ErrNewRequest)
    ELSE IF h.httpClient.nil
    THEN Panic(c)
    ELSE [c EXCEPT !.pc = "waiting",
                   !.sent = <<[Method |-> requestType, URL |-> url, Body |-> rb]>>]

OnConnectAuthenticate(h, cl, pk) ==
    makeRequest(h, [IdleCall EXCEPT !.kind = "connect", !.cl = cl, !.pk = pk],
                MethodPost, h.clientauthhost, ClientCheckPOST(cl, pk))

OnACLCheck(h, cl, topic, write) ==
    makeRequest(h, [IdleCall EXCEPT !.kind = "acl", !.cl = cl, !.topic = topic,
                                    !.write = write],
                MethodPost, h.aclhost, ACLCheckPOST(cl, topic, write))

\* net/http's limit on the requests of one Client.Do (defaultCheckRedirect)
MaxRequests == 10

\* Client.Do follows a 301, 302, 303, 307 or 308 that carries a Location
ShouldRedirect(resp) ==
    resp.StatusCode \in RedirectStatuses /\ resp.Location # NoLocation

\* the request Client.Do makes for a redirect (ireq the first request, req the
\* latest): 301, 302 and 303 turn a POST into a GET with no body, 307 and 308
\* keep the method and send the first request's body again
RedirectRequest(ireq, req, resp) ==
    [Method |-> IF resp.StatusCode \in {301, 302, 303} /\ req.Method # MethodGet
                THEN MethodGet
                ELSE req.Method,
     URL |-> resp.Location,
     Body |-> IF resp.StatusCode \in {307, 308} THEN ireq.Body ELSE NoBody]

\* h.httpClient.Do after the transport returned out for the latest request,
\* then the rest of makeRequest and of its caller
ClientDo(h, c, out) ==
    LET d == [c EXCEPT !.got = Append(@, out)] IN
    IF out.err # NoErr
    THEN Conclude(h, d, NoResp, out.err)
    ELSE IF ~ShouldRedirect(out.resp)
    THEN Conclude(h, d, out.resp, NoErr)
    ELSE IF out.resp.Location = BadLocation
    THEN Conclude(h, d, NoResp, ErrLocation)
    ELSE IF Len(d.sent) >= MaxRequests
    THEN Conclude(h, d, NoResp, ErrTooManyRedirects)
    ELSE [d EXCEPT !.sent = Append(@, RedirectRequest(d.sent[1], d.sent[Len(d.sent)], out.resp))]

(***************************************************************************)
(* The legacy hook, type HTTPAuthHook of auth/http.go.                     *)
(***************************************************************************)
\* new(HTTPAuthHook)
ZeroLegacyHook ==
    [httpclient |-> NilClient, aclhost |-> Nil, clientauthhost |-> Nil,
     superuserhost |-> Nil]

\* the legacy hook, what its latest Init returned, and its check call
ZeroLegacy == [hook |-> ZeroLegacyHook, err |-> NotCalled, call |-> IdleCall]

\* the HTTPAuthHookConfig with the fields of an Options value (it has no
\* Callback); nil and values of other types stay what they are
LegacyConfig(config) ==
    [shape |-> IF config.shape = "Options" THEN "HTTPAuthHookConfig"
               ELSE IF config.shape = "*Options" THEN "*HTTPAuthHookConfig"
               ELSE config.shape,
     opts |-> [ACLHost |-> config.opts.ACLHost,
               SuperUserHost |-> config.opts.SuperUserHost,
               ClientAuthenticationHost |-> config.opts.ClientAuthenticationHost,
               RoundTripper |-> config.opts.RoundTripper]]

\* validateConfig of auth/http.go
LegacyValidateConfig(config) ==
    IF (config.ACLHost = Nil) \/ (config.ClientAuthenticationHost = Nil)
    THEN FALSE
    ELSE TRUE

\* HTTPAuthHook.Init: the fields after the call and the error returned
LegacyInit(h, config) ==
    IF config.shape = "nil"
    THEN [hook |-> h, err |-> ErrNilConfig]
    ELSE IF config.shape # "HTTPAuthHookConfig"
    THEN [hook |-> h, err |-> ErrBadConfigShape]
    ELSE IF ~LegacyValidateConfig(config.opts)
    THEN [hook |-> h, err |-> ErrInvalidHosts]
    ELSE [hook |->
            [httpclient |-> NewTransport(config.opts.RoundTripper),
             aclhost |-> config.opts.ACLHost,
             clientauthhost |-> config.opts.ClientAuthenticationHost,
             superuserhost |-> config.opts.SuperUserHost],
          err |-> NoErr]

StatusUnauthorized == 401
StatusForbidden == 403

\* mutant: the legacy hook lets every status below 400 pass
LegacyDecide_lt400(resp) ==
    IF resp.StatusCode = StatusUnauthorized \/ resp.StatusCode = StatusForbidden
    THEN FALSE
    ELSE resp.StatusCode >= 200 /\ resp.StatusCode < 400

\* lines 105-110 and 128-132 of auth/http.go: 401 and 403 are rejected first,
\* then the 2xx range decides
LegacyDecide(resp) ==
    IF resp.StatusCode = StatusUnauthorized \/ resp.StatusCode = StatusForbidden
    THEN FALSE
    ELSE resp.StatusCode >= 200 /\ resp.StatusCode < 300

\* lines 100-110 and 123-132 of auth/http.go: the error branch, or the decision
LegacyConclude(c, resp, err) ==
    IF err # NoErr
    THEN [c EXCEPT !.pc = "done", !.err = err, !.result = FALSE]
    ELSE [c EXCEPT !.pc = "done", !.resp = resp, !.result = LegacyDecide(resp)]

\* HTTPAuthHook.makeRequest up to the point where h.httpclient.Do hands the
\* request to the transport
LegacyMakeRequest(h, c, requestType, url, payload) ==
    LET rb == Marshal(payload) IN
    IF url = Nil
    THEN Panic(c)
    ELSE IF ~Parses(url)
    THEN LegacyConclude(c, NoResp, ErrNewRequest)
    ELSE IF h.httpclient.nil
    THEN Panic(c)
    ELSE [c EXCEPT !.pc = "waiting",
                   !.sent = <<[Method |-> requestType, URL |-> url, Body |-> rb]>>]

\* HTTPAuthHook.OnConnectAuthenticate
LegacyOnConnectAuthenticate(h, cl, pk) ==
    LegacyMakeRequest(h, [IdleCall EXCEPT !.kind = "connect", !.cl = cl, !.pk = pk],
                      MethodPost, h.clientauthhost,
                      [ClientID |-> cl.ID, Password |-> pk.Password,
                       Username |-> pk.Username])

\* HTTPAuthHook.OnACLCheck
LegacyOnACLCheck(h, cl, topic, write) ==
    LegacyMakeRequest(h, [IdleCall EXCEPT !.kind = "acl", !.cl = cl,
                                          !.topic = topic, !.write = write],
                      MethodPost, h.aclhost,
                      [ClientID |-> cl.ID, Username |-> cl.Username,
                       Topic |-> topic, ACC |-> FormatBool(write)])

\* h.httpclient.Do after the transport returned out for the latest request
\* (the legacy NewTransport builds the same http.Client), then the rest of
\* HTTPAuthHook.makeRequest and of its caller
LegacyClientDo(c, out) ==
    LET d == [c EXCEPT !.got = Append(@, out)] IN
    IF out.err # NoErr
    THEN LegacyConclude(d, NoResp, out.err)
    ELSE IF ~ShouldRedirect(out.resp)
    THEN LegacyConclude(d, out.resp, NoErr)
    ELSE IF out.resp.Location = BadLocation
    THEN LegacyConclude(d, NoResp, ErrLocation)
    ELSE IF Len(d.sent) >= MaxRequests
    THEN LegacyConclude(d, NoResp, ErrTooManyRedirects)
    ELSE [d EXCEPT !.sent = Append(@, RedirectRequest(d.sent[1], d.sent[Len(d.sent)], out.resp))]

(***************************************************************************)
(* Actions.  The sets name the inputs a specification draws from.          *)
(***************************************************************************)
Procs == 1 .. MaxCalls

\* Init(config).  The spec leaves Init concurrent with checks out of scope:
\* it runs while no check call is in progress.
InitStep(CS) ==
    /\ \A p \in DOMAIN calls : calls[p].pc = "idle"
    /\ \E config \in CS :
        LET r == HookInit(hook, config) IN
        /\ hook' = r.hook
        /\ initErr' = r.err
        /\ lastCfg' = config
        /\ good' = IF r.err = NoErr
                   THEN [ok |-> TRUE, opts |-> config.opts,
                         overridden |-> good.overridden
                                        \/ (good.ok /\ good.opts.Callback # Nil)]
                   ELSE good
    /\ UNCHANGED <<calls, legacy>>

\* a goroutine enters OnConnectAuthenticate and runs to its first round trip
ConnectStep(p, CLS, PKS) ==
    /\ calls[p].pc = "idle"
    /\ \E cl \in CLS, pk \in PKS :
        calls' = [calls EXCEPT ![p] = OnConnectAuthenticate(hook, cl, pk)]
    /\ UNCHANGED <<hook, initErr, lastCfg, good, legacy>>

\* a goroutine enters OnACLCheck and runs to its first round trip
ACLStep(p, CLS, TS) ==
    /\ calls[p].pc = "idle"
    /\ \E cl \in CLS, topic \in TS, write \in BOOLEAN :
        calls' = [calls EXCEPT ![p] = OnACLCheck(hook, cl, topic, write)]
    /\ UNCHANGED <<hook, initErr, lastCfg, good, legacy>>

\* the transport returns from RoundTrip; the call goes on to its next round
\* trip or to its return
RoundTripStep(p, OS) ==
    /\ calls[p].pc = "waiting"
    /\ \E out \in OS :
        /\ ShouldRedirect(out.resp) /\ out.resp.Location # BadLocation
              => Len(calls[p].sent) <= MaxHops
        /\ calls' = [calls EXCEPT ![p] = ClientDo(hook, calls[p], out)]
    /\ UNCHANGED <<hook, initErr, lastCfg, good, legacy>>

\* the broker has taken the call's result (or recovered its panic)
ReturnStep(p) ==
    /\ calls[p].pc \in {"done", "panic"}
    /\ calls' = [calls EXCEPT ![p] = IdleCall]
    /\ UNCHANGED <<hook, initErr, lastCfg, good, legacy>>

(***************************************************************************)
(* Spec: one hook, one check call at a time, the full input sets.          *)
(***************************************************************************)
InitVars(PS) ==
    /\ hook = ZeroHook
    /\ initErr = NotCalled
    /\ lastCfg = Config("nil", ZeroOptions)
    /\ good = [ok |-> FALSE, opts |-> ZeroOptions, overridden |-> FALSE]
    /\ calls = [p \in PS |-> IdleCall]
    /\ legacy = ZeroLegacy

Init == InitVars({1})

Hook_Init == InitStep(Configs)
Hook_OnConnectAuthenticate == ConnectStep(1, Clients, Packets)
Hook_OnACLCheck == ACLStep(1, Clients, Topics)
Transport_RoundTrip == RoundTripStep(1, Outcomes)
Return == ReturnStep(1)

Next ==
    \/ Hook_Init
    \/ Hook_OnConnectAuthenticate
    \/ Hook_OnACLCheck
    \/ Transport_RoundTrip
    \/ Return

Spec == Init /\ [][Next]_vars

(***************************************************************************)
(* SpecConc: MaxCalls goroutines call the hook at once, in every           *)
(* interleaving of their steps, over smaller input sets.                   *)
(***************************************************************************)
ConcConfigs ==
    {Config("Options", ZeroOptions),
     Config("Options", Opts(ACLURL, AuthURL, Nil, MockRT, Nil)),
     Config("Options", Opts(ACLURL, AuthURL, SuperURL, MockRT, cbInvert))}

ConcClients == {[ID |-> Plain, Username |-> Empty]}
ConcPackets == {[Username |-> Plain, Password |-> Plain]}
ConcTopics == {Plain}

ConcOutcomes ==
    {o \in Outcomes :
        \/ o.err # NoErr
        \/ o.resp.StatusCode \in {200, 401}
        \/ o.resp.StatusCode = 302 /\ o.resp.Location = SuperURL}

InitConc == InitVars(Procs)

Conc_Init == InitStep(ConcConfigs)
Conc_OnConnectAuthenticate == \E p \in Procs : ConnectStep(p, ConcClients, ConcPackets)
Conc_OnACLCheck == \E p \in Procs : ACLStep(p, ConcClients, ConcTopics)
Conc_RoundTrip == \E p \in Procs : RoundTripStep(p, ConcOutcomes)
Conc_Return == \E p \in Procs : ReturnStep(p)

NextConc ==
    \/ Conc_Init
    \/ Conc_OnConnectAuthenticate
    \/ Conc_OnACLCheck
    \/ Conc_RoundTrip
    \/ Conc_Return

SpecConc == InitConc /\ [][NextConc]_vars

(***************************************************************************)
(* SpecEquiv: a Hook with the default decision function and a legacy       *)
(* HTTPAuthHook are given the same configurations, the same check calls    *)
(* and the same transport outcomes, step by step.                          *)
(***************************************************************************)
\* the configs that carry no Callback
EquivConfigs == {config \in Configs : config.opts.Callback = Nil}

Equiv_Init ==
    /\ calls[1].pc = "idle" /\ legacy.call.pc = "idle"
    /\ \E config \in EquivConfigs :
        LET r == HookInit(hook, config)
            l == LegacyInit(legacy.hook, LegacyConfig(config))
        IN
        /\ hook' = r.hook
        /\ initErr' = r.err
        /\ lastCfg' = config
        /\ good' = IF r.err = NoErr
                   THEN [ok |-> TRUE, opts |-> config.opts, overridden |-> FALSE]
                   ELSE good
        /\ legacy' = [legacy EXCEPT !.hook = l.hook, !.err = l.err]
    /\ UNCHANGED calls

Equiv_OnConnectAuthenticate ==
    /\ calls[1].pc = "idle" /\ legacy.call.pc = "idle"
    /\ \E cl \in Clients, pk \in Packets :
        /\ calls' = [calls EXCEPT ![1] = OnConnectAuthenticate(hook, cl, pk)]
        /\ legacy' = [legacy EXCEPT
                        !.call = LegacyOnConnectAuthenticate(legacy.hook, cl, pk)]
    /\ UNCHANGED <<hook, initErr, lastCfg, good>>

Equiv_OnACLCheck ==
    /\ calls[1].pc = "idle" /\ legacy.call.pc = "idle"
    /\ \E cl \in Clients, topic \in Topics, write \in BOOLEAN :
        /\ calls' = [calls EXCEPT ![1] = OnACLCheck(hook, cl, topic, write)]
        /\ legacy' = [legacy EXCEPT
                        !.call = LegacyOnACLCheck(legacy.hook, cl, topic, write)]
    /\ UNCHANGED <<hook, initErr, lastCfg, good>>

\* the transport returns the same outcome to both hooks
Equiv_RoundTrip ==
    /\ calls[1].pc = "waiting" /\ legacy.call.pc = "waiting"
    /\ \E out \in Outcomes :
        /\ ShouldRedirect(out.resp) /\ out.resp.Location # BadLocation
              => Len(calls[1].sent) <= MaxHops
        /\ calls' = [calls EXCEPT ![1] = ClientDo(hook, calls[1], out)]
        /\ legacy' = [legacy EXCEPT !.call = LegacyClientDo(legacy.call, out)]
    /\ UNCHANGED <<hook, initErr, lastCfg, good>>

Equiv_Return ==
    /\ calls[1].pc \in {"done", "panic"} /\ legacy.call.pc \in {"done", "panic"}
    /\ calls' = [calls EXCEPT ![1] = IdleCall]
    /\ legacy' = [legacy EXCEPT !.call = IdleCall]
    /\ UNCHANGED <<hook, initErr, lastCfg, good>>

NextEquiv ==
    \/ Equiv_Init
    \/ Equiv_OnConnectAuthenticate
    \/ Equiv_OnACLCheck
    \/ Equiv_RoundTrip
    \/ Equiv_Return

SpecEquiv == Init /\ [][NextEquiv]_vars

(***************************************************************************)
(* Properties.                                                             *)
(***************************************************************************)
\* the calls that have returned a boolean
Returned == {p \in DOMAIN calls : calls[p].pc = "done"}

\* what the transport returned for the call's latest request
Final(c) == c.got[Len(c.got)]

\* the send step of call c ended in an error: no request could be built, the
\* transport returned an error, or a redirect's Location did not parse
SendFailed(c) ==
    \/ Len(c.got) = 0
    \/ Final(c).err # NoErr
    \/ ShouldRedirect(Final(c).resp) /\ Final(c).resp.Location = BadLocation

\* the transport itself returned an error for the call's latest request
TransportFailed(c) == Len(c.got) > 0 /\ Final(c).err # NoErr

\* C1: a check call (of either entry point, with the default or an override
\* decision function) whose send step returned an error returns false, and
\* the decision function was not invoked in that call.
C1_FailClosed ==
    \A p \in Returned :
        SendFailed(calls[p]) => calls[p].result = FALSE /\ calls[p].evals = 0

\* an OnACLCheck under an always-allow override returned after the transport
\* returned an error
C1_Witness ==
    \E p \in Returned :
        /\ calls[p].kind = "acl"
        /\ TransportFailed(calls[p])
        /\ hook.callback = cbAllow
        /\ calls[p].result = FALSE

C3_OverridePolicy ==
    \A p \in Returned :
        (good.ok /\ good.opts.Callback # Nil /\ ~SendFailed(calls[p]))
            => /\ calls[p].evals = 1
               /\ calls[p].result
                    = Apply(good.opts.Callback, Final(calls[p]).resp)

\* status 200 was denied by an override
C3_Witness ==
    \E p \in Returned :
        /\ good.ok /\ good.opts.Callback = cbInvert
        /\ ~SendFailed(calls[p])
        /\ Final(calls[p]).resp.StatusCode = 200
        /\ calls[p].result = FALSE

\* C4: the error Init returns is decided by its config alone, whatever the
\* hook held before: the nil-config error for nil, the bad-shape error for a
\* value that is no Options, the invalid-hosts error when ACLHost or
\* ClientAuthenticationHost is nil, three different errors; otherwise no
\* error, and the hook holds an HTTP client with a transport.
C4_InitResult ==
    /\ Cardinality({NoErr, ErrNilConfig, ErrBadConfigShape, ErrInvalidHosts}) = 4
    /\ initErr # NotCalled =>
        /\ lastCfg.shape = "nil" => initErr = ErrNilConfig
        /\ lastCfg.shape \notin {"nil", "Options"} => initErr = ErrBadConfigShape
        /\ (/\ lastCfg.shape = "Options"
            /\ (\/ lastCfg.opts.ACLHost = Nil
                \/ lastCfg.opts.ClientAuthenticationHost = Nil))
              => initErr = ErrInvalidHosts
        /\ (/\ lastCfg.shape = "Options"
            /\ lastCfg.opts.ACLHost # Nil
            /\ lastCfg.opts.ClientAuthenticationHost # Nil)
              => /\ initErr = NoErr
                 /\ ~hook.httpClient.nil
                 /\ hook.httpClient.Transport # Nil

\* an Init with both URLs and no transport succeeded on a hook that an earlier
\* Init had configured with an override, and installed the default transport
C4_Witness ==
    /\ initErr = NoErr
    /\ lastCfg.opts.RoundTripper = Nil
    /\ lastCfg.opts.Callback = Nil
    /\ good.overridden
    /\ hook.httpClient.Transport = DefaultRT

\* an Init call has failed and none has succeeded since
InitFailed == initErr \notin {NotCalled, NoErr}

\* C5 as claimed: after a failing Init, also one that follows a successful
\* Init, every field of the hook is at its zero value.
C5_ZeroAfterFailure ==
    InitFailed => hook = ZeroHook

\* C5, amended: a failing Init writes no field of the hook, so each field
\* keeps the value it had before the call; a hook on which no Init has
\* succeeded holds zero values only.
C5_FailureWritesNothing ==
    /\ [][initErr' # NoErr => hook' = hook]_vars
    /\ [](~good.ok => hook = ZeroHook)

\* an Init failed on a hook that an earlier Init had configured, and the
\* earlier configuration is still in place
C5_Witness ==
    /\ InitFailed
    /\ lastCfg.shape = "Options"
    /\ lastCfg.opts.Callback # Nil
    /\ good.ok
    /\ hook.aclhost = good.opts.ACLHost
    /\ hook.callback = DefaultFn

\* C6 as claimed: in every state of the hook (never initialized, Init failed,
\* Init succeeded) a check call ends by returning a boolean, false when the
\* request could not be built or sent; no call ends in a panic.
C6_AlwaysReturnsBool ==
    \A p \in DOMAIN calls :
        /\ calls[p].pc # "panic"
        /\ (calls[p].pc = "done" /\ SendFailed(calls[p]))
              => calls[p].result = FALSE

\* the URL of the endpoint a check of this kind is to be sent to
Endpoint(kind) ==
    IF kind = "connect" THEN hook.clientauthhost ELSE hook.aclhost

\* C7 as claimed: a check call that hands the transport a request hands it
\* exactly one, a POST to the configured endpoint of its kind, whatever the
\* transport returns for it (a response of any status, or an error).
C7_OneRequest ==
    \A p \in DOMAIN calls :
        Len(calls[p].sent) >= 1
            => /\ Len(calls[p].sent) = 1
               /\ calls[p].sent[1].Method = MethodPost
               /\ calls[p].sent[1].URL = Endpoint(calls[p].kind)

\* the OnACLCheck calls that have built their request
ACLSent == {p \in DOMAIN calls : calls[p].kind = "acl" /\ Len(calls[p].sent) >= 1}

LiteralTrue == <<"t", "r", "u", "e">>
LiteralFalse == <<"f", "a", "l", "s", "e">>

\* C8 as claimed: the body of an OnACLCheck request has acc "true" exactly
\* for a write and "false" exactly for a read, and its clientid, username and
\* topic are the client's ID, the client's username and the topic, verbatim.
C8_BodyVerbatim ==
    \A p \in ACLSent :
        LET c == calls[p]
            body == c.sent[1].Body
        IN  /\ (body.acc = LiteralTrue) <=> c.write
            /\ (body.acc = LiteralFalse) <=> ~c.write
            /\ body.clientid = c.cl.ID
            /\ body.username = c.cl.Username
            /\ body.topic = c.topic

\* t is s with each byte that is not valid UTF-8 replaced by U+FFFD
Coerced(s, t) ==
    /\ Len(t) = Len(s)
    /\ \A i \in 1 .. Len(s) :
          t[i] = (IF s[i] = "xFF" THEN "uFFFD" ELSE s[i])

\* C8, amended: acc is "true" exactly for a write and "false" exactly for a
\* read; clientid, username and topic are the client's ID, the client's
\* username and the topic with each byte that is not valid UTF-8 replaced by
\* U+FFFD, and so verbatim whenever they are valid UTF-8.
C8_BodyCoerced ==
    \A p \in ACLSent :
        LET c == calls[p]
            body == c.sent[1].Body
        IN  /\ (body.acc = LiteralTrue) <=> c.write
            /\ (body.acc = LiteralFalse) <=> ~c.write
            /\ Coerced(c.cl.ID, body.clientid)
            /\ Coerced(c.cl.Username, body.username)
            /\ Coerced(c.topic, body.topic)

\* a write check was sent for a client whose ID has leading and trailing
\* blanks, on a topic that has them too
C8_Witness ==
    \E p \in ACLSent :
        /\ calls[p].write
        /\ calls[p].cl.ID = Padded
        /\ calls[p].topic = Padded
        /\ calls[p].sent[1].Body.clientid = Padded
        /\ calls[p].sent[1].Body.acc = LiteralTrue

\* what call c returns when it runs alone with the transport outcomes it got
Alone(c) ==
    IF SendFailed(c) THEN FALSE ELSE Apply(hook.callback, Final(c).resp)

\* C9: with check calls running at once, no step of a check call writes a
\* field of the hook, and every call returns what it would return alone on
\* the transport outcomes of its own requests.
C9_CallsIndependent ==
    /\ [][calls' # calls => hook' = hook]_vars
    /\ [](\A p \in Returned : calls[p].result = Alone(calls[p]))

\* two calls that were in flight together have returned different decisions
C9_Witness ==
    /\ 1 \in Returned /\ 2 \in Returned
    /\ calls[1].kind = "connect" /\ calls[2].kind = "acl"
    /\ calls[1].result = TRUE /\ calls[2].result = FALSE
    /\ ~SendFailed(calls[1]) /\ ~SendFailed(calls[2])

\* C10: the decision function, the endpoints and the transport of the hook
\* are those of the latest successful Init, which installs the default policy
\* when its Options carry no decision function; a check running after it is
\* decided by the default policy even if an earlier Init carried an override.
C10_LatestInitInEffect ==
    good.ok =>
        /\ hook.callback = (IF good.opts.Callback = Nil
                            THEN DefaultFn ELSE good.opts.Callback)
        /\ hook.aclhost = good.opts.ACLHost
        /\ hook.clientauthhost = good.opts.ClientAuthenticationHost
        /\ hook.superuserhost = good.opts.SuperUserHost
        /\ hook.httpClient.Transport = (IF good.opts.RoundTripper = Nil
                                        THEN DefaultRT ELSE good.opts.RoundTripper)
        /\ \A p \in Returned :
              (good.opts.Callback = Nil /\ ~SendFailed(calls[p]))
                 => (calls[p].result
                       <=> Final(calls[p]).resp.StatusCode \in 200 .. 299)

\* after an Init with an override and a later Init without one, a check that
\* got status 401 was denied
C10_Witness ==
    /\ good.ok /\ good.overridden /\ good.opts.Callback = Nil
    /\ \E p \in Returned :
          /\ ~SendFailed(calls[p])
          /\ Final(calls[p]).resp.StatusCode = 401
          /\ calls[p].result = FALSE

\* C11: a legacy HTTPAuthHook and a Hook with the default decision function,
\* initialized with the same valid configuration and given the same transport
\* outcomes for the same check call, hand the transport the same requests,
\* return together, and return the same boolean, for OnConnectAuthenticate
\* and for OnACLCheck, on every status code and on a transport error.
C11_DecisionEquivalent ==
    (good.ok /\ legacy.err = NoErr) =>
        /\ legacy.call.pc = calls[1].pc
        /\ legacy.call.sent = calls[1].sent
        /\ calls[1].pc = "done" => legacy.call.result = calls[1].result

\* both hooks have denied an OnACLCheck on status 403, which the legacy hook
\* rejects by name and the default decision function by range
C11_Witness ==
    /\ good.ok /\ legacy.err = NoErr
    /\ calls[1].pc = "done" /\ legacy.call.pc = "done"
    /\ calls[1].kind = "acl" /\ legacy.call.kind = "acl"
    /\ legacy.call.got = calls[1].got
    /\ ~SendFailed(calls[1])
    /\ Final(calls[1]).resp.StatusCode = StatusForbidden
    /\ legacy.call.result = FALSE /\ calls[1].result = FALSE

====
